---- MODULE Spec2Model ----
(***************************************************************************)
(* State-machine model of the two credential extractors                   *)
(*   src/dji_credentials_extractor.py      (variant "home")               *)
(*   src/dji_fly_credentials_extractor.py  (variant "fly")                *)
(* One run of main(): setup, readiness polling, install, launch, operator *)
(* gate, memory acquisition, pattern extraction, enrichment, persistence. *)
(***************************************************************************)
EXTENDS Integers, Sequences, FiniteSets, TLC

VARIABLES
    variant,      \* which script runs: "home" or "fly"
    pc,           \* position of main()
    now,          \* time.time() - start_time inside start_emulator's loop
    heapFile,     \* /data/local/tmp/heap.bin on the device
    pid,          \* local `pid` of extract_credentials ("" when unset)
    parsed,       \* `credentials` as built by the parsing loop
    credentials,  \* `credentials` of main(): the record returned / enriched
    preApi,       \* the record as it was when test_api was entered
    result,       \* what extract_credentials returned: "unset", "None", "record"
    raised,       \* exception that escaped a stage ("none" if none did)
    diag,         \* last print_error diagnostic
    apiFailed,    \* some enrichment call hit a network / API / format error
    interrupted,  \* a KeyboardInterrupt was delivered
    exitCode,     \* process exit status: "running", "0", "1", "SIGINT"
    applied,      \* how many times test_api has returned
    capture,      \* the matches the batch found in heap.bin
    output,       \* `output` of the batch: "unset", "None", "empty", "text"
    endedIn,      \* the step main() was at when the process ended ("" before)
    apiCodes,     \* the answers to the requests test_api has issued: "none"
                  \* (no request yet), "rejected" (each one carried a
                  \* non-zero code), "unread" (one carried code 0 where the
                  \* success test does not look), "mixed" (anything else)
    frame,        \* locals and issued commands of the last stage run before
                  \* the acquisition
    scan,         \* the parsing loop taken line by line: `output` split into
                  \* lines, the lines consumed, current_key
    acq,          \* locals and issued commands of extract_credentials up to
                  \* its post-check (dropped once the batch has been run)
    files         \* ENV_FILE / OUTPUT_FILE

vars == <<variant, pc, now, heapFile, pid, parsed, credentials, preApi, result,
          raised, diag, apiFailed, interrupted, exitCode, applied, capture,
          output, endedIn, apiCodes, frame, scan, acq, files>>

(***************************************************************************)
(* Bounds of the model                                                     *)
(***************************************************************************)
MaxHits == 2        \* matchers that find something in one capture
MaxCmd == 1         \* seconds one un-timed adb command may take
MaxDevices == 1
OfflineCycles == 3     \* consecutive offline cycles that are counted     \* entries of an API device list

(***************************************************************************)
(* Python values held by the record: every value is a tagged sequence of  *)
(* strings so that values of different Python types stay comparable.      *)
(***************************************************************************)
Absent == [kind |-> "absent", items |-> <<>>]
None == [kind |-> "none", items |-> <<>>]
Str(s) == [kind |-> "str", items |-> <<s>>]
List(q) == [kind |-> "list", items |-> q]
Bool(b) == [kind |-> "bool", items |-> <<IF b THEN "True" ELSE "False">>]
Num(digits) == [kind |-> "int", items |-> <<digits>>]

\* Python truthiness, as used by `if x:` and `not credentials.get(k)`
Truthy(v) ==
    CASE v.kind = "str" -> v.items # <<"">>
      [] v.kind = "list" -> v.items # <<>>
      [] v.kind = "bool" -> v.items = <<"True">>
      [] v.kind = "int" -> v.items # <<"0">>
      [] OTHER -> FALSE

\* str(x) of a JSON value
PyStr(v) ==
    CASE v.kind \in {"str", "int", "bool"} -> Str(v.items[1])
      [] v.kind = "none" -> Str("None")
      [] OTHER -> [kind |-> "str", items |-> <<"repr">> \o v.items]

InSeq(x, q) == \E i \in 1..Len(q) : q[i] = x

Take(q, n) == IF Len(q) <= n THEN q ELSE SubSeq(q, 1, n)

(***************************************************************************)
(* Lines of the batch output.  A line is a header-shaped text             *)
(* "=== LABEL ===", an ordinary text (possibly with surrounding blanks),  *)
(* or whitespace only.                                                     *)
(***************************************************************************)
Hdr(label) == [kind |-> "hdr", text |-> label, pad |-> FALSE]
Text(s) == [kind |-> "text", text |-> s, pad |-> FALSE]
Padded(s) == [kind |-> "text", text |-> s, pad |-> TRUE]
Blank == [kind |-> "blank", text |-> "", pad |-> TRUE]
EmptyLine == [kind |-> "empty", text |-> "", pad |-> FALSE]

\* line.strip()
strip(line) ==
    IF line.kind = "blank" THEN EmptyLine ELSE [line EXCEPT !.pad = FALSE]

\* line.startswith("=== ") and line.endswith(" ===")
IsHeader(line) == line.kind = "hdr"

\* str.lower() on the labels that occur
lower(label) ==
    CASE label = "USER_TOKEN" -> "user_token"
      [] label = "USER_ID" -> "user_id"
      [] label = "USER_EMAIL" -> "user_email"
      [] label = "USER_NAME" -> "user_name"
      [] label = "DEVICE_SN" -> "device_sn"
      [] label = "PAIR_UUID" -> "pair_uuid"
      [] label = "IOT_URL" -> "iot_url"
      [] label = "DEVICE_UUID" -> "device_uuid"
      [] label = "DRONE_SN" -> "drone_sn"
      [] label = "DRONE_MODEL" -> "drone_model"
      [] label = "ACCOUNT_TOKEN" -> "account_token"
      [] label = "OPENAPI_TOKEN" -> "openapi_token"
      [] label = "API_URLS" -> "api_urls"
      [] label = "Note" -> "note"
      [] OTHER -> label

\* line[4:-4].lower()
HeaderKey(line) == lower(line.text)

(***************************************************************************)
(* The record: a Python dict, here a function on every key that can occur *)
(***************************************************************************)
HomeFields == {"user_token", "user_id", "user_email", "user_name", "device_sn",
               "pair_uuid", "iot_url", "device_uuid"}
FlyFields == {"user_token", "user_id", "user_email", "user_name", "drone_sn",
              "drone_model", "account_token", "openapi_token", "api_urls",
              "device_uuid"}
HomeApiKeys == {"mqtt_domain", "mqtt_port", "mqtt_user_uuid", "api_working",
                "device_name"}
FlyApiKeys == {"account_verified", "flight_records_accessible",
               "recent_flights_count"}
Keys == HomeFields \cup FlyFields \cup HomeApiKeys \cup FlyApiKeys \cup {"note"}

list_keys == {"api_urls", "device_uuid"}

EmptyRecord == [k \in Keys |-> Absent]

(***************************************************************************)
(* Result parsing (the `for line in output.split('\n')` loops).  The      *)
(* loop state is the dict and current_key ("" stands for None / empty).   *)
(***************************************************************************)
\* home: the first non-empty line after a header is stored, then the
\* section is closed (current_key = None)
ParseHomeLine(st, raw) ==
    LET line == strip(raw) IN
    IF IsHeader(line) THEN [st EXCEPT !.cur = HeaderKey(line)]
    ELSE IF line.kind # "empty" /\ st.cur # ""
         THEN [cred |-> [st.cred EXCEPT ![st.cur] = Str(line.text)], cur |-> ""]
         ELSE st

\* fly, with a scalar key taking every line of its section in turn
ParseFlyLine_last_wins(st, raw) ==
    LET line == strip(raw) IN
    IF IsHeader(line) THEN [st EXCEPT !.cur = HeaderKey(line)]
    ELSE IF line.kind # "empty" /\ st.cur # ""
         THEN IF st.cur \in list_keys
              THEN LET lst == IF st.cred[st.cur] = Absent THEN <<>>
                              ELSE st.cred[st.cur].items
                   IN [st EXCEPT !.cred[st.cur] =
                          List(IF InSeq(line.text, lst) THEN lst
                               ELSE Append(lst, line.text))]
              ELSE [st EXCEPT !.cred[st.cur] = Str(line.text)]
         ELSE st

\* fly: list keys collect distinct lines, scalar keys keep the first line
ParseFlyLine(st, raw) ==
    LET line == strip(raw) IN
    IF IsHeader(line) THEN [st EXCEPT !.cur = HeaderKey(line)]
    ELSE IF line.kind # "empty" /\ st.cur # ""
         THEN IF st.cur \in list_keys
              THEN LET lst == IF st.cred[st.cur] = Absent THEN <<>>
                              ELSE st.cred[st.cur].items
                   IN [st EXCEPT !.cred[st.cur] =
                          List(IF InSeq(line.text, lst) THEN lst
                               ELSE Append(lst, line.text))]
              ELSE IF st.cred[st.cur] = Absent
                   THEN [st EXCEPT !.cred[st.cur] = Str(line.text)]
                   ELSE st
         ELSE st

ParseLine(v, st, raw) ==
    IF v = "home" THEN ParseHomeLine(st, raw) ELSE ParseFlyLine(st, raw)

RECURSIVE ParseFrom(_, _, _, _)
ParseFrom(v, lines, i, st) ==
    IF i > Len(lines) THEN st
    ELSE ParseFrom(v, lines, i + 1, ParseLine(v, st, lines[i]))

\* the dict after the loop
ParseOutput(v, lines) ==
    ParseFrom(v, lines, 1, [cred |-> EmptyRecord, cur |-> ""]).cred

(***************************************************************************)
(* The extraction batch (extract_cmd).  A section is a header echo and    *)
(* one pipeline per matcher; a slot names one matcher pipeline.           *)
(***************************************************************************)
HomeSections == <<
    [label |-> "USER_TOKEN", slots |-> <<"user_token">>, join |-> "&&"],
    [label |-> "USER_ID", slots |-> <<"h_user_id">>, join |-> "&&"],
    [label |-> "USER_EMAIL", slots |-> <<"h_user_email">>, join |-> "&&"],
    [label |-> "USER_NAME", slots |-> <<"h_user_name">>, join |-> "&&"],
    [label |-> "DEVICE_SN", slots |-> <<"device_sn.1", "device_sn.2">>, join |-> "||"],
    [label |-> "PAIR_UUID", slots |-> <<"pair_uuid">>, join |-> "&&"],
    [label |-> "IOT_URL", slots |-> <<"iot_url">>, join |-> "&&"],
    [label |-> "DEVICE_UUID", slots |-> <<"h_device_uuid">>, join |-> "&&"] >>

FlySections == <<
    [label |-> "USER_TOKEN", slots |-> <<"user_token">>, join |-> ";"],
    [label |-> "USER_ID", slots |-> <<"user_id.1", "user_id.2", "user_id.3">>, join |-> ";"],
    [label |-> "USER_EMAIL", slots |-> <<"user_email">>, join |-> ";"],
    [label |-> "USER_NAME", slots |-> <<"user_name.1", "user_name.2">>, join |-> ";"],
    [label |-> "DRONE_SN", slots |-> <<"drone_sn.1", "drone_sn.2", "drone_sn.3">>, join |-> ";"],
    [label |-> "DRONE_MODEL", slots |-> <<"drone_model.1", "drone_model.2", "drone_model.3">>, join |-> ";"],
    [label |-> "ACCOUNT_TOKEN", slots |-> <<"account_token">>, join |-> ";"],
    [label |-> "OPENAPI_TOKEN", slots |-> <<"openapi_token">>, join |-> ";"],
    [label |-> "API_URLS", slots |-> <<"api_urls">>, join |-> ";"],
    [label |-> "DEVICE_UUID", slots |-> <<"device_uuid">>, join |-> ";"] >>

Sections(v) == IF v = "home" THEN HomeSections ELSE FlySections

\* the separator between the commands of the batch
Separator(v) == IF v = "home" THEN "&&" ELSE ";"

RECURSIVE SlotsFrom(_, _)
SlotsFrom(secs, i) ==
    IF i > Len(secs) THEN <<>> ELSE secs[i].slots \o SlotsFrom(secs, i + 1)

\* every matcher pipeline of the batch, in script order
Slots(v) == SlotsFrom(Sections(v), 1)

\* every matcher pipeline ends in its grep
PipeEnd_always_grep(slot) == "grep"

\* the last command of a matcher pipeline decides its exit status
PipeEnd(slot) ==
    CASE slot \in {"user_id.1", "user_id.2", "user_id.3", "drone_sn.1",
                   "drone_sn.2", "drone_sn.3", "device_sn.1"} -> "grep"
      [] slot \in {"user_name.1", "drone_model.1", "drone_model.2",
                   "account_token", "openapi_token", "device_sn.2"} -> "sed"
      [] OTHER -> "head"

\* the N of the pipeline's `head -N`
HeadCount(slot) ==
    CASE slot = "api_urls" -> 20
      [] slot = "device_uuid" -> 3
      [] OTHER -> 1

\* the order `sort` puts the texts of the model in
SortOrder == <<"SNA00000001", "SNB00000002",
               "https://a.dji.com", "https://b.djigate.com">>

\* sort -u
SortU(lines) ==
    LET present(s) == \E i \in 1..Len(lines) : lines[i].text = s
        pick == SelectSeq(SortOrder, present)
    IN [i \in 1..Len(pick) |-> Text(pick[i])]

Count(lines, s) == Cardinality({i \in 1..Len(lines) : lines[i].text = s})

\* sort | uniq -c | sort -rn | head -1 | sed ... : the most frequent text,
\* ties going to the one that sorts last
MostFrequent(lines) ==
    LET idx == {i \in 1..Len(SortOrder) : Count(lines, SortOrder[i]) > 0}
        best == CHOOSE i \in idx : \A j \in idx :
                    \/ Count(lines, SortOrder[i]) > Count(lines, SortOrder[j])
                    \/ /\ Count(lines, SortOrder[i]) = Count(lines, SortOrder[j])
                       /\ i >= j
    IN IF idx = {} THEN <<>> ELSE <<Text(SortOrder[best])>>

\* what one matcher pipeline prints, given the raw matches grep finds
PipeOut(slot, raw) ==
    CASE slot = "api_urls" -> Take(SortU(raw), HeadCount(slot))
      [] slot = "device_sn.2" -> MostFrequent(raw)
      [] OTHER -> Take(raw, HeadCount(slot))

PipeStatus(slot, out) ==
    IF PipeEnd(slot) = "grep" /\ out = <<>> THEN 1 ELSE 0

\* steps of the batch: what a command prints, its exit status, and whether
\* it is the `rm -f heap.bin`
CdStep == [out |-> <<>>, status |-> 0, rm |-> FALSE]
RmStep == [out |-> <<>>, status |-> 0, rm |-> TRUE]
EchoStep(label) == [out |-> <<Hdr(label)>>, status |-> 0, rm |-> FALSE]
MatchStep(slot, cap) ==
    [out |-> PipeOut(slot, cap[slot]),
     status |-> PipeStatus(slot, PipeOut(slot, cap[slot])), rm |-> FALSE]
\* ( a || b ): b runs only when a fails
OrStep(a, b, cap) ==
    IF MatchStep(a, cap).status = 0 THEN MatchStep(a, cap)
    ELSE [out |-> MatchStep(a, cap).out \o MatchStep(b, cap).out,
          status |-> MatchStep(b, cap).status, rm |-> FALSE]

SectionSteps(sec, cap) ==
    <<EchoStep(sec.label)>> \o
    (IF sec.join = "||" THEN <<OrStep(sec.slots[1], sec.slots[2], cap)>>
     ELSE [i \in 1..Len(sec.slots) |-> MatchStep(sec.slots[i], cap)])

RECURSIVE StepsFrom(_, _, _)
StepsFrom(secs, i, cap) ==
    IF i > Len(secs) THEN <<>>
    ELSE SectionSteps(secs[i], cap) \o StepsFrom(secs, i + 1, cap)

\* the whole batch: cd, the sections, rm -f heap.bin
extract_cmd(v, cap) == <<CdStep>> \o StepsFrom(Sections(v), 1, cap) \o <<RmStep>>

\* the device shell runs the steps; with "&&" a failing step ends the batch
RECURSIVE RunShell(_, _, _, _)
RunShell(steps, sep, i, acc) ==
    IF i > Len(steps) THEN acc
    ELSE LET s == steps[i]
             acc2 == [out |-> acc.out \o s.out, removed |-> acc.removed \/ s.rm]
         IN IF sep = "&&" /\ s.status # 0 THEN acc2
            ELSE RunShell(steps, sep, i + 1, acc2)

\* how many steps of the batch the device shell runs
RECURSIVE StepsRun(_, _, _)
StepsRun(steps, sep, i) ==
    IF i > Len(steps) THEN Len(steps)
    ELSE IF sep = "&&" /\ steps[i].status # 0 THEN i
    ELSE StepsRun(steps, sep, i + 1)

(***************************************************************************)
(* Captures: for each matcher pipeline, the raw matches its grep finds in *)
(* `strings heap.bin` (<<>> when it finds none).  The texts are chosen    *)
(* within what each pattern can match: the free-text patterns              *)
(* ("nickname", "model_name", "product_type": [^"]{n,m}) also match       *)
(* blanks and header-shaped text, the others cannot.                      *)
(***************************************************************************)
RawOpts(slot) ==
    CASE slot = "user_token" -> {<<Text("US_tokA")>>}
      [] slot = "user_id.1" -> {<<Text("1001")>>}
      [] slot = "user_id.2" -> {<<Text("1002")>>}
      [] slot = "user_id.3" -> {<<Text("1003")>>}
      [] slot = "user_email" -> {<<Text("cap@mail.example")>>,
                                 <<Text("cap@mail.example"), Text("two@mail.example")>>}
      [] slot = "user_name.1" -> {<<Text("Nick")>>, <<Padded("Nick")>>, <<Blank>>,
                                  <<Hdr("user_token")>>, <<Hdr("Note")>>}
      [] slot = "user_name.2" -> {<<Text("djiuser_x")>>}
      [] slot = "drone_sn.1" -> {<<Text("SNA00000001")>>}
      [] slot = "drone_sn.2" -> {<<Text("SNB00000002")>>}
      [] slot = "drone_sn.3" -> {<<Text("SNC00000003")>>}
      [] slot = "drone_model.1" -> {<<Text("Mavic 3")>>, <<Blank>>, <<Hdr("API_URLS")>>}
      [] slot = "drone_model.2" -> {<<Text("wm260")>>, <<Blank>>}
      [] slot = "drone_model.3" -> {<<Text("DJI Mini 4")>>}
      [] slot = "account_token" -> {<<Text("acct-token")>>}
      [] slot = "openapi_token" -> {<<Text("openapi-token")>>}
      [] slot = "api_urls" ->
            {<<Text("https://b.djigate.com")>>,
             <<Text("https://b.djigate.com"), Text("https://a.dji.com")>>,
             <<Text("https://b.djigate.com"), Text("https://a.dji.com"),
               Text("https://b.djigate.com")>>}
      [] slot = "device_uuid" ->
            {<<Text("uuid-1")>>, <<Text("uuid-1"), Text("uuid-1")>>,
             <<Text("uuid-1"), Text("uuid-2")>>,
             <<Text("uuid-1"), Text("uuid-2"), Text("uuid-1"), Text("uuid-3")>>}
      [] slot = "h_user_id" -> {<<Text("100000000000001")>>}
      [] slot = "h_user_email" -> {<<Text("cap@mail.example")>>}
      [] slot = "h_user_name" -> {<<Text("djiuser_x")>>}
      [] slot = "device_sn.1" -> {<<Text("SNC00000003")>>}
      [] slot = "device_sn.2" ->
            {<<Text("SNB00000002")>>,
             <<Text("SNA00000001"), Text("SNB00000002")>>,
             <<Text("SNA00000001"), Text("SNB00000002"), Text("SNA00000001")>>}
      [] slot = "pair_uuid" -> {<<Text("ROMO-1")>>}
      [] slot = "iot_url" -> {<<Text("things-access.iot.djigate.com")>>}
      [] slot = "h_device_uuid" -> {<<Text("uuid-1")>>}
      [] OTHER -> {}

\* the raw matches of slots i.. of `slots`, at most `budget` of them non-empty
RECURSIVE RawFrom(_, _, _)
RawFrom(slots, i, budget) ==
    IF i > Len(slots) THEN {<<>>}
    ELSE {<< <<>> >> \o rest : rest \in RawFrom(slots, i + 1, budget)}
         \cup (IF budget = 0 THEN {}
               ELSE UNION {{<<r>> \o rest : rest \in RawFrom(slots, i + 1, budget - 1)}
                           : r \in RawOpts(slots[i])})

SlotIndex(slots, s) == CHOOSE i \in 1..Len(slots) : slots[i] = s

SlotSet(v) == {Slots(v)[i] : i \in 1..Len(Slots(v))}

CapturesOf(v) ==
    {[s \in SlotSet(v) |-> q[SlotIndex(Slots(v), s)]]
        : q \in RawFrom(Slots(v), 1, MaxHits)}

HomeCaptures == CapturesOf("home")
FlyCaptures == CapturesOf("fly")
Captures(v) == IF v = "home" THEN HomeCaptures ELSE FlyCaptures

\* a capture in which no pattern matches (also: an empty heap.bin)
NoMatch(v) == [s \in SlotSet(v) |-> <<>>]

\* stdout of the batch and whether heap.bin was removed
BatchRun(v, cap) ==
    RunShell(extract_cmd(v, cap), Separator(v), 1, [out |-> <<>>, removed |-> FALSE])

(***************************************************************************)
(* Initial state: the script has been started, nothing has run yet.  The  *)
(* device may still hold a heap.bin of an earlier run.                    *)
(***************************************************************************)
\* the frame of a stage: the commands it issued on the host or the device,
\* what its checks read, and the error it printed
\*   offline  consecutive polling cycles, just before the last one, that
\*            saw the device offline (counted up to OfflineCycles; a shorter
\*            run is not kept once the stage returns)
\*   exited   proc.poll() of the last polling cycle was not None
\*   listed, offlineNow   "emulator" and "device" / "offline" in the output
\*            of `adb devices` at the check that made the stage return
\*   boot     sys.boot_completed at that check;  bootRead: the stage read it
\*   shown    at a cycle that found the process dead: the device list showed
\*            an online device whose boot flag was set
\*   t0       when the returning polling cycle began
\*   wasReady when the stage began, an emulator was online and booted
\*   dir      the *.apk files in SCRIPT_DIR;  installed: the package query
\*            lists the application;  picked: the file install_apk chose
\*   resolved resolve-activity named an entry point
\*   avdAt    the `avdmanager create avd` command through which the AVD came
\*            to exist (0: it existed before)
NoFrame ==
    [stage |-> "", issued |-> <<>>, err |-> "none",
     offline |-> 0, exited |-> FALSE, listed |-> FALSE, offlineNow |-> FALSE,
     boot |-> "", bootRead |-> FALSE, shown |-> FALSE, t0 |-> 0,
     wasReady |-> FALSE,
     dir |-> {}, installed |-> FALSE, picked |-> "none", resolved |-> FALSE,
     avdAt |-> 0]

StageFrame(name) == [NoFrame EXCEPT !.stage = name]

\* extract_credentials before it has run a command
\*   pids    stdout of pidof, split;  target: the pid in dump_cmd
\*   check   `file_check`, the stdout of the ls on heap.bin
NoAcq == [pids |-> <<>>, target |-> "", check |-> "", issued |-> <<>>]

\* the parsing loop before `output` is split
NoScan == [lines |-> <<>>, done |-> 0, cur |-> ""]

NoFiles == [written |-> FALSE, env |-> EmptyRecord, report |-> EmptyRecord]

Init ==
    /\ variant \in {"home", "fly"}
    /\ pc = "prompt"
    /\ now = 0
    /\ heapFile \in {"absent", "stale"}
    /\ pid = ""
    /\ parsed = EmptyRecord
    /\ credentials = EmptyRecord
    /\ preApi = EmptyRecord
    /\ result = "unset"
    /\ raised = "none"
    /\ diag = "none"
    /\ apiFailed = FALSE
    /\ interrupted = FALSE
    /\ exitCode = "running"
    /\ applied = 0
    /\ capture = NoMatch(variant)
    /\ output = "unset"
    /\ endedIn = ""
    /\ apiCodes = "none"
    /\ frame = NoFrame
    /\ scan = NoScan
    /\ acq = NoAcq
    /\ files = NoFiles

data == <<heapFile, pid, parsed, credentials, preApi, result, apiFailed, applied,
          capture, output, apiCodes, scan, acq, files>>

\* main(): a stage moved on to the next one
Goto(next) ==
    /\ pc' = next
    /\ UNCHANGED <<variant, raised, diag, interrupted, exitCode, endedIn>>

\* sys.exit(1) after print_error(d), inside main()'s try
Fatal(d) ==
    /\ pc' = "exited"
    /\ exitCode' = "1"
    /\ diag' = d
    /\ endedIn' = pc
    /\ UNCHANGED <<variant, raised, interrupted>>

\* an exception other than KeyboardInterrupt escaped a stage:
\* main()'s `except Exception` prints it and calls sys.exit(1)
Crash(exc) ==
    /\ pc' = "exited"
    /\ exitCode' = "1"
    /\ raised' = exc
    /\ endedIn' = pc
    /\ UNCHANGED <<variant, diag, interrupted>>

(***************************************************************************)
(* main(): first prompt and environment setup                             *)
(***************************************************************************)
\* input(">>> Press ENTER to start... "), before the try block
press_enter_to_start ==
    /\ pc = "prompt"
    /\ Goto("setup")
    /\ UNCHANGED <<now, data>>
    /\ UNCHANGED frame

\* check_android_studio_or_sdk, check_homebrew, check_java, setup_android_sdk:
\* setup_android_sdk calls sys.exit(1) when sdkmanager, the emulator binary
\* or the system image is missing
setup_android_sdk ==
    /\ pc = "setup"
    /\ \E outcome \in {"ok", "no_sdkmanager", "no_emulator", "no_system_image"} :
          IF outcome = "ok" THEN Goto("create_avd") ELSE Fatal(outcome)
    /\ UNCHANGED <<now, data>>
    /\ UNCHANGED frame

\* create_avd: home always returns True; fly returns False when the AVD
\* does not exist after its three attempts.  main() ignores the result.
create_avd_result(v, existsAfter) ==
    IF v = "home" THEN TRUE ELSE existsAfter

\* the variants of the `avdmanager create avd` command create_avd can run
create_attempts(v) == IF v = "fly" THEN 3 ELSE 1

\* when the AVD comes to exist: 0 = before create_avd runs, n = through the
\* n-th create command, create_attempts + 1 = not at all
NeverCreated(v) == create_attempts(v) + 1
AvdCreation(v) == 0..NeverCreated(v)

\* all three variants of the create command are run, whatever the checks say
create_avd_commands_unconditional(v, avdAt) ==
    IF avdAt = 0 THEN <<>>
    ELSE IF v = "home" THEN <<"avdmanager_create">>
    ELSE <<"avdmanager_create", "avdmanager_create", "avdmanager_create">>

\* the `avdmanager create avd` commands create_avd runs.  fly: the plain
\* command, then --force, then --sdk_root --force, each only while
\* _avd_exists() is still false.  home: the plain command; its --force
\* variant is guarded by `result is None`, which run_command cannot return
\* when called with check=False and no timeout.
create_avd_commands(v, avdAt) ==
    IF avdAt = 0 THEN <<>>
    ELSE [i \in 1..(IF avdAt > create_attempts(v) THEN create_attempts(v) ELSE avdAt)
            |-> "avdmanager_create"]

create_avd ==
    /\ pc = "create_avd"
    /\ \E avdAt \in AvdCreation(variant) :
          LET existsAfter == avdAt # NeverCreated(variant) IN
          /\ create_avd_result(variant, existsAfter) \in BOOLEAN
          /\ frame' = [StageFrame("create_avd") EXCEPT
                          !.avdAt = avdAt,
                          !.issued = create_avd_commands(variant, avdAt),
                          !.err = IF create_avd_result(variant, existsAfter)
                                  THEN "none" ELSE "avd_not_created"]
          /\ Goto("start_emulator")
    /\ UNCHANGED <<now, data>>

(***************************************************************************)
(* start_emulator: the readiness stage                                    *)
(***************************************************************************)
max_wait == 420
poll_interval == 5
grace_delay == 5

\* stdout of `adb devices` ("" when the command gives nothing): the header
\* line "List of devices attached" and one line per device
DevicesOutputs ==
    {[ok |-> FALSE, emu |-> "absent", other |-> "absent"]} \cup
    [ok : {TRUE}, emu : {"absent", "offline", "device"},
     other : {"absent", "offline", "device"}]

\* the list is searched for a name that `adb devices` never prints
HasEmulator_by_avd_name(d) == d.ok /\ d.emu = "avd"

\* "emulator" in devices
HasEmulator(d) == d.ok /\ d.emu # "absent"
\* "device" in devices: the header line itself contains the word
HasDevice(d) == d.ok
\* "offline" in devices
HasOffline(d) == d.ok /\ (d.emu = "offline" \/ d.other = "offline")

\* the start-of-stage checks and the launch
start_emulator ==
    /\ pc = "start_emulator"
    /\ \E image \in BOOLEAN, binary \in BOOLEAN, d \in DevicesOutputs,
          boot \in {"1", "0", ""} :
          LET f == [StageFrame("start_emulator") EXCEPT
                       !.listed = HasEmulator(d) /\ HasDevice(d),
                       !.offlineNow = HasOffline(d), !.boot = boot,
                       !.wasReady = d.ok /\ d.emu = "device" /\ boot = "1"]
          IN
          IF ~image
          THEN Fatal("no_system_image") /\ now' = now
               /\ frame' = [f EXCEPT !.err = "no_system_image"]
          ELSE IF ~binary
          THEN Fatal("no_emulator_binary") /\ now' = now
               /\ frame' = [f EXCEPT !.err = "no_emulator_binary"]
          ELSE IF HasEmulator(d) /\ HasDevice(d)
               THEN Goto("setup_root") /\ now' = now    \* "already running"
                    /\ frame' = f
               ELSE \* Popen, adb wait-for-device (timeout 90), start_time
                    Goto("polling") /\ now' = 0
                    /\ frame' = [StageFrame("start_emulator") EXCEPT
                                    !.issued = <<"popen_emulator", "adb_wait_for_device">>,
                                    !.wasReady = f.wasReady]
    /\ UNCHANGED data

\* one iteration of `while time.time() - start_time < max_wait`
\* exited: proc.poll() is not None;  d1, d2: seconds the two un-timed adb
\* commands take;  d: `adb devices`;  boot: `getprop sys.boot_completed`
\* the device list is examined before proc.poll()
PollCycle_devices_first(t, exited, d1, d, d2, boot) ==
    IF HasEmulator(d) /\ HasDevice(d) /\ ~HasOffline(d) /\ boot = "1"
    THEN [next |-> "ready", t |-> t + d1 + d2 + grace_delay]
    ELSE IF exited THEN [next |-> "died", t |-> t + d1]
    ELSE [next |-> "polling", t |-> t + d1 + poll_interval]

\* ready is returned as soon as the boot flag is read, without the sleep
PollCycle_without_grace(t, exited, d1, d, d2, boot) ==
    IF exited THEN [next |-> "died", t |-> t]
    ELSE IF HasEmulator(d) /\ HasDevice(d)
         THEN IF HasOffline(d)
              THEN [next |-> "polling", t |-> t + d1 + poll_interval]
              ELSE IF boot = "1"
                   THEN [next |-> "ready", t |-> t + d1 + d2]
                   ELSE [next |-> "polling", t |-> t + d1 + d2 + poll_interval]
         ELSE [next |-> "polling", t |-> t + d1 + poll_interval]

PollCycle(t, exited, d1, d, d2, boot) ==
    IF exited THEN [next |-> "died", t |-> t]
    ELSE IF HasEmulator(d) /\ HasDevice(d)
         THEN IF HasOffline(d)
              THEN [next |-> "polling", t |-> t + d1 + poll_interval]
              ELSE IF boot = "1"
                   THEN [next |-> "ready", t |-> t + d1 + d2 + grace_delay]
                   ELSE [next |-> "polling", t |-> t + d1 + d2 + poll_interval]
         ELSE [next |-> "polling", t |-> t + d1 + poll_interval]

\* the device list shows the emulator, and nothing offline
Online(d) == HasEmulator(d) /\ HasDevice(d) /\ ~HasOffline(d)

\* the cycle reached the boot_completed query: the process was alive and
\* the device was listed and not offline
BootRead(exited, d) ==
    ~exited /\ HasEmulator(d) /\ HasDevice(d) /\ ~HasOffline(d)

\* consecutive cycles that took the `"offline" in devices` branch
OfflineRun(n, exited, d) ==
    IF ~exited /\ HasEmulator(d) /\ HasDevice(d) /\ HasOffline(d)
    THEN (IF n < OfflineCycles THEN n + 1 ELSE n)
    ELSE 0

start_emulator_poll ==
    /\ pc = "polling"
    /\ now < max_wait
    /\ \E exited \in BOOLEAN, d1 \in 0..MaxCmd, d2 \in 0..MaxCmd,
          d \in DevicesOutputs, boot \in {"1", "0", ""} :
          LET c == PollCycle(now, exited, d1, d, d2, boot) IN
          /\ now' = c.t
          /\ CASE c.next = "died" -> Fatal("died")
               [] c.next = "ready" -> Goto("setup_root")
               [] OTHER -> Goto("polling")
          /\ frame' =
                CASE c.next = "polling" ->
                        [frame EXCEPT !.exited = exited,
                                      !.offline = OfflineRun(frame.offline, exited, d)]
                  [] c.next = "died" ->
                        [frame EXCEPT !.exited = exited, !.offline = 0,
                                      !.shown = Online(d) /\ boot = "1",
                                      !.err = "died"]
                  [] OTHER ->
                        [frame EXCEPT !.exited = exited,
                                      !.offline = IF frame.offline = OfflineCycles
                                                  THEN OfflineCycles ELSE 0,
                                      !.listed = HasEmulator(d) /\ HasDevice(d),
                                      !.offlineNow = HasOffline(d),
                                      !.boot = boot, !.t0 = now,
                                      !.bootRead = BootRead(exited, d)]
    /\ UNCHANGED data

\* the while condition fails: "Timeout: emulator did not start in time"
start_emulator_timeout ==
    /\ pc = "polling"
    /\ ~(now < max_wait)
    /\ Fatal("timeout")
    /\ UNCHANGED <<now, data>>
    /\ UNCHANGED frame

\* setup_root: adb root, sleep 3, whoami; returns True either way
setup_root ==
    /\ pc = "setup_root"
    /\ \E whoami \in {"root", "shell", ""} : Goto("install_apk")
    /\ now' = 0
    /\ frame' = StageFrame("setup_root")
    /\ UNCHANGED data

(***************************************************************************)
(* install_apk, launch_app, wait_for_login                                *)
(***************************************************************************)
\* *.apk files that may lie in SCRIPT_DIR: the one named APK_NAME, one whose
\* name holds the product and category markers, two unrelated ones
ApkFiles == {"exact", "fuzzy", "other1", "other2"}

\* the package install_apk settles on ("none": sys.exit(1));
\* first: what SCRIPT_DIR.glob("*.apk") happens to list first
select_apk(v, dir, first) ==
    IF "exact" \in dir THEN "exact"
    ELSE IF "fuzzy" \in dir THEN "fuzzy"
    ELSE IF v = "home" /\ dir # {} THEN first
    ELSE "none"

install_apk ==
    /\ pc = "install_apk"
    /\ \E dir \in SUBSET ApkFiles, installed \in BOOLEAN, success \in BOOLEAN :
       \E first \in (IF dir = {} THEN {"none"} ELSE dir) :
          LET f == [StageFrame("install_apk") EXCEPT
                       !.dir = dir, !.installed = installed,
                       !.picked = select_apk(variant, dir, first)]
          IN
          IF select_apk(variant, dir, first) = "none"
          THEN Fatal("apk_not_found") /\ frame' = [f EXCEPT !.err = "apk_not_found"]
          ELSE IF installed
          THEN Goto("launch_app")
               /\ frame' = [f EXCEPT !.issued = <<"pm_list_packages">>]
          ELSE IF success
          THEN Goto("launch_app")
               /\ frame' = [f EXCEPT !.issued = <<"pm_list_packages", "adb_install">>]
          ELSE Fatal("install_failed")
               /\ frame' = [f EXCEPT !.issued = <<"pm_list_packages", "adb_install">>,
                                      !.err = "install_failed"]
    /\ UNCHANGED <<now, data>>

\* which start command launch_app issues; activity: what resolve-activity
\* printed (fly only)
launch_mechanism(v, activity) ==
    IF v = "home" THEN "am_start_fixed"
    ELSE IF activity = "pkg/activity" THEN "am_start_resolved" ELSE "monkey"

\* the commands launch_app runs on the device, in order
launch_commands(v, activity) ==
    IF v = "home" THEN <<launch_mechanism(v, activity)>>
    ELSE <<"resolve_activity", launch_mechanism(v, activity)>>

launch_app ==
    /\ pc = "launch_app"
    /\ \E activity \in {"pkg/activity", "No activity found", ""} :
          /\ frame' = [StageFrame("launch_app") EXCEPT
                          !.resolved = (activity = "pkg/activity"),
                          !.issued = launch_commands(variant, activity)]
          /\ Goto("wait_for_login")
    /\ UNCHANGED <<now, data>>

\* input(">>> Press ENTER when you are logged in... "): no timeout
wait_for_login ==
    /\ pc = "wait_for_login"
    /\ frame' = StageFrame("wait_for_login")
    /\ Goto("extract")
    /\ UNCHANGED <<now, data>>

(***************************************************************************)
(* extract_credentials: process lookup, memory copy, post-check           *)
(***************************************************************************)
\* stdout of `adb shell pidof <package>`, split
PidofOutputs == {<<>>, <<"4711">>, <<"4711", "4812">>}

\* how the dd on the device can end
DdOutcomes == {"copied", "nothing_read", "no_access", "channel_error", "timeout"}

\* heap.bin after the dd: dd creates / truncates `of` only once it could
\* open `if`; a copy cut off by the timeout leaves what was written so far
dd_effect(h, dd) ==
    CASE dd \in {"copied", "timeout"} -> "fresh"
      [] dd = "nothing_read" -> "empty"
      [] OTHER -> h

\* stdout of `adb shell ls -la /data/local/tmp/heap.bin`
ls_output(h, channel) ==
    IF ~channel THEN ""
    ELSE IF h = "absent" THEN "No such file" ELSE "-rw heap.bin"

\* `not file_check or "No such file" in str(file_check)`
dump_failed(file_check) == file_check = "" \/ file_check = "No such file"

\* the last id of the list is taken
last_pid(pids) == pids[Len(pids)]

\* pid.strip().split()[0]
first_pid(pids) == pids[1]

\* the commands extract_credentials runs up to its post-check, in order
acquisition_commands(pids, file_check) ==
    <<"adb_root", "whoami", "pidof">> \o
    (IF pids = <<>> THEN <<>>
     ELSE <<"dd", "ls">> \o (IF dump_failed(file_check) THEN <<"maps">> ELSE <<>>))

extract_credentials_dump ==
    /\ pc = "extract"
    /\ \E pids \in PidofOutputs, dd \in DdOutcomes, channel \in BOOLEAN :
          IF pids = <<>>
          THEN /\ Fatal("not_running")
               /\ result' = "None"
               /\ acq' = [NoAcq EXCEPT !.issued = acquisition_commands(pids, "")]
               /\ UNCHANGED <<heapFile, pid>>
          ELSE LET file_check == ls_output(dd_effect(heapFile, dd), channel) IN
               /\ heapFile' = dd_effect(heapFile, dd)
               /\ acq' = [pids |-> pids, target |-> first_pid(pids),
                          check |-> file_check,
                          issued |-> acquisition_commands(pids, file_check)]
               /\ IF dump_failed(file_check)
                  THEN Fatal("dump_failed") /\ result' = "None" /\ pid' = ""
                  ELSE Goto("batch") /\ result' = result /\ pid' = first_pid(pids)
    /\ UNCHANGED <<now, parsed, credentials, preApi, apiFailed, applied, capture,
                   output, files>>
    /\ UNCHANGED <<apiCodes, frame, scan>>

(***************************************************************************)
(* extract_credentials: the batch, the parsing loop, the validity check   *)
(***************************************************************************)
\* `not output`
no_output(lines) == \A i \in 1..Len(lines) : strip(lines[i]).kind = "empty"

\* the validity check lets every record through
token_missing_never(cred) == FALSE

\* `not credentials.get("user_token")`
token_missing_or_no_user_id(cred) ==
    ~Truthy(cred["user_token"]) \/ ~Truthy(cred["user_id"])

token_missing(cred) == ~Truthy(cred["user_token"])

\* what the batch can read from heap.bin
Readable(v, h) == IF h = "empty" THEN {NoMatch(v)} ELSE Captures(v)

\* the batch ran to its end on the device
batch_completes ==
    /\ pc = "batch"
    /\ \E cap \in Readable(variant, heapFile) :
          LET run == BatchRun(variant, cap)
              cred == ParseOutput(variant, run.out)
          IN /\ heapFile' = IF run.removed THEN "absent" ELSE heapFile
             /\ capture' = cap
             /\ output' = IF no_output(run.out) THEN "empty" ELSE "text"
             /\ IF no_output(run.out)
                THEN /\ Fatal("extraction_failed")
                     /\ result' = "None"
                     /\ UNCHANGED <<parsed, credentials, preApi>>
                ELSE /\ parsed' = cred
                     /\ IF token_missing(cred)
                        THEN /\ Fatal("token_not_found")
                             /\ result' = "None"
                             /\ UNCHANGED <<credentials, preApi>>
                        ELSE /\ Goto("test_api")
                             /\ result' = "record"
                             /\ credentials' = cred
                             /\ preApi' = cred
    /\ pid' = ""
    /\ acq' = NoAcq
    /\ UNCHANGED <<now, apiFailed, applied, files>>
    /\ UNCHANGED <<apiCodes, frame, scan>>

\* what the timeout of the batch leads to: home's run_command returns None;
\* fly's `except subprocess.TimeoutExpired` leaves `proc` unbound and the
\* following `if proc and proc.stderr` raises
on_batch_timeout(v) == IF v = "home" THEN "return_none" ELSE "UnboundLocalError"

\* the batch is cut off by the timeout (60 / 120 s); whether the shell on
\* the device still got to `rm -f heap.bin` is not determined
batch_times_out ==
    /\ pc = "batch"
    /\ \E rmReached \in BOOLEAN :
          heapFile' = IF rmReached THEN "absent" ELSE heapFile
    /\ IF on_batch_timeout(variant) = "return_none"
       THEN Fatal("extraction_failed") /\ result' = "None"
       ELSE Crash(on_batch_timeout(variant)) /\ result' = result
    /\ pid' = ""
    /\ output' = "None"
    /\ acq' = NoAcq
    /\ UNCHANGED <<now, parsed, credentials, preApi, apiFailed, applied, capture, files>>
    /\ UNCHANGED <<apiCodes, frame, scan>>

\* the channel fails before the batch runs: empty stdout, nothing executed
batch_channel_error ==
    /\ pc = "batch"
    /\ Fatal("extraction_failed")
    /\ result' = "None"
    /\ pid' = ""
    /\ output' = "empty"
    /\ acq' = NoAcq
    /\ UNCHANGED <<now, heapFile, parsed, credentials, preApi, apiFailed, applied,
                   capture, files>>
    /\ UNCHANGED <<apiCodes, frame, scan>>

(***************************************************************************)
(* test_api: the enrichment calls.  A response is what requests.get(...)  *)
(* and response.json() give: exc = the call or the JSON decoding raised.  *)
(***************************************************************************)
Envelopes == {"result", "flat"}     \* {result:{code,..},data} | {code,..,data}

\* the success test on the envelope: home reads result.code only,
\* fly reads result.code or code
code_is_zero(v, r) ==
    IF v = "home" THEN r.envelope = "result" /\ r.code = 0
    ELSE r.envelope \in Envelopes /\ r.code = 0

\* how a request was answered: it raised, the success test passed, the
\* envelope carried a non-zero code, or it carried no code the test reads
Answer(v, r) ==
    IF r.exc THEN "error"
    ELSE IF code_is_zero(v, r) THEN "zero"
    ELSE IF r.code # 0 THEN "nonzero"
    ELSE "unread"

Answered(sofar, answer) ==
    IF answer = "unread" \/ sofar = "unread" THEN "unread"
    ELSE IF answer = "nonzero" /\ sofar \in {"none", "rejected"} THEN "rejected"
    ELSE "mixed"

\* dict.get(k) of a JSON object: None when the key is missing
JsonGet(x) == IF x = Absent THEN None ELSE x

\* Python `a or b`
PyOr(a, b) == IF Truthy(a) THEN a ELSE b

\* ---- fly, call 1: /member/info ----
MemberResponses ==
    [exc : {TRUE}, envelope : {"result"}, code : {0}, wrap : {"data"},
     nickname : {Absent}, uid : {Absent}, email : {Absent}] \cup
    [exc : {FALSE}, envelope : Envelopes, code : {0, 1},
     wrap : {"data", "top", "bad"},    \* data dict | no data key | data not a dict
     nickname : {Absent, Str("ApiNick"), List(<<"a", "b">>)},
     uid : {Absent, Num("2002")},
     email : {Absent, Str("api@mail.example")}]

\* the member record's uid is stored as the token
fly_member_info_replacing_token(cred, r) ==
    IF r.exc \/ ~code_is_zero("fly", r) \/ r.wrap = "bad"
    THEN [cred |-> cred, failed |-> TRUE]
    ELSE [cred |-> [cred EXCEPT !["account_verified"] = Bool(TRUE),
                                !["user_token"] = PyStr(JsonGet(r.uid))],
          failed |-> FALSE]

fly_member_info(cred, r) ==
    IF r.exc THEN [cred |-> cred, failed |-> TRUE]
    ELSE IF ~code_is_zero("fly", r) THEN [cred |-> cred, failed |-> TRUE]
    ELSE LET c0 == [cred EXCEPT !["account_verified"] = Bool(TRUE)]
             c1 == IF Truthy(r.nickname)
                   THEN [c0 EXCEPT !["user_name"] = r.nickname] ELSE c0
             c2 == IF Truthy(r.uid)
                   THEN [c1 EXCEPT !["user_id"] = PyStr(r.uid)] ELSE c1
             c3 == IF Truthy(r.email)
                   THEN [c2 EXCEPT !["user_email"] = r.email] ELSE c2
         IN IF r.wrap = "bad" THEN [cred |-> c0, failed |-> TRUE]
            ELSE [cred |-> c3, failed |-> FALSE]

\* ---- fly, call 2: /devices ----
NoDevice == [dict |-> TRUE, sn |-> Absent, serial_number |-> Absent,
             model_name |-> Absent, product_type |-> Absent, name |-> Absent]
FlyDevices ==
    {[NoDevice EXCEPT !.sn = Str("APISN001"), !.model_name = Str("API Mavic")],
     [NoDevice EXCEPT !.serial_number = Str("APISN002"), !.name = Str("My Air")],
     [NoDevice EXCEPT !.product_type = Str("wm999")],
     [NoDevice EXCEPT !.dict = FALSE]}

RECURSIVE SeqsUpTo(_, _)
SeqsUpTo(S, n) ==
    IF n = 0 THEN {<<>>}
    ELSE SeqsUpTo(S, n - 1) \cup
         {Append(q, x) : q \in {p \in SeqsUpTo(S, n - 1) : Len(p) = n - 1}, x \in S}

DevicesResponses ==
    [exc : {TRUE}, envelope : {"result"}, code : {0}, shape : {"list"},
     devices : {<<>>}] \cup
    [exc : {FALSE}, envelope : Envelopes, code : {0, 1}, shape : {"notlist"},
     devices : {<<>>}] \cup
    [exc : {FALSE}, envelope : Envelopes, code : {0, 1}, shape : {"list"},
     devices : SeqsUpTo(FlyDevices, MaxDevices)]

\* the body of `for device in devices`
fly_device(cred, d) ==
    LET sn == PyOr(JsonGet(d.sn), JsonGet(d.serial_number))
        model == PyOr(PyOr(JsonGet(d.model_name), JsonGet(d.product_type)),
                      JsonGet(d.name))
        c1 == IF ~Truthy(cred["drone_sn"])
              THEN [cred EXCEPT !["drone_sn"] = sn] ELSE cred
        c2 == IF Truthy(model) THEN [c1 EXCEPT !["drone_model"] = model] ELSE c1
    IN IF Truthy(sn) THEN c2 ELSE cred

RECURSIVE fly_device_loop(_, _, _)
fly_device_loop(cred, devices, i) ==
    IF i > Len(devices) THEN [cred |-> cred, failed |-> FALSE]
    ELSE IF ~devices[i].dict THEN [cred |-> cred, failed |-> TRUE]
    ELSE fly_device_loop(fly_device(cred, devices[i]), devices, i + 1)

fly_devices(cred, r) ==
    IF r.exc THEN [cred |-> cred, failed |-> TRUE]
    ELSE IF ~code_is_zero("fly", r) THEN [cred |-> cred, failed |-> TRUE]
    ELSE IF r.shape # "list" THEN [cred |-> cred, failed |-> TRUE]
    ELSE fly_device_loop(cred, r.devices, 1)

\* ---- fly, call 3: /user/flights ----
FlightsResponses ==
    [exc : {TRUE}, status : {200}, envelope : {"result"}, code : {0},
     payload : {"flights"}] \cup
    [exc : {FALSE}, status : {200, 500}, envelope : Envelopes, code : {0, 1},
     payload : {"flights", "noflights", "datalist"}]

fly_flights(cred, r) ==
    LET no == [cred |-> [cred EXCEPT !["flight_records_accessible"] = Bool(FALSE)],
               failed |-> TRUE]
    IN IF r.exc THEN no
       ELSE IF ~(r.status = 200 /\ code_is_zero("fly", r)) THEN no
       ELSE IF r.payload = "datalist" THEN no     \* list.get raises
       ELSE [cred |-> [cred EXCEPT
                          !["flight_records_accessible"] = Bool(TRUE),
                          !["recent_flights_count"] =
                              IF r.payload = "flights" THEN Num("2") ELSE Num("0")],
             failed |-> FALSE]

\* ---- home, call 1: /users/auth/token?reason=mqtt ----
MqttResponses ==
    [exc : {TRUE}, envelope : {"result"}, code : {0}, wrap : {"data"},
     mqtt_domain : {Absent}, mqtt_port : {Absent}, user_uuid : {Absent}] \cup
    [exc : {FALSE}, envelope : Envelopes, code : {0, 1},
     wrap : {"data", "missing", "bad"},
     mqtt_domain : {Absent, Str("mqtt.djigate.com")},
     mqtt_port : {Absent, Num("8883")},
     user_uuid : {Absent, Str("api-user-uuid")}]

\* a rejected answer's data is stored all the same
home_mqtt_storing_rejected(cred, r) ==
    IF r.exc \/ r.wrap # "data"
    THEN [cred |-> [cred EXCEPT !["api_working"] = Bool(FALSE)], failed |-> TRUE]
    ELSE [cred |-> [cred EXCEPT
                       !["mqtt_domain"] = JsonGet(r.mqtt_domain),
                       !["mqtt_port"] = JsonGet(r.mqtt_port),
                       !["mqtt_user_uuid"] = JsonGet(r.user_uuid),
                       !["api_working"] = Bool(code_is_zero("home", r))],
          failed |-> ~code_is_zero("home", r)]

home_mqtt(cred, r) ==
    LET no == [cred |-> [cred EXCEPT !["api_working"] = Bool(FALSE)],
               failed |-> TRUE]
    IN IF r.exc THEN no
       ELSE IF ~code_is_zero("home", r) THEN no
       ELSE IF r.wrap # "data" THEN no      \* data["data"] / mqtt_data.get raises
       ELSE [cred |-> [cred EXCEPT
                          !["mqtt_domain"] = JsonGet(r.mqtt_domain),
                          !["mqtt_port"] = JsonGet(r.mqtt_port),
                          !["mqtt_user_uuid"] = JsonGet(r.user_uuid),
                          !["api_working"] = Bool(TRUE)],
             failed |-> FALSE]

\* ---- home, call 2: /homes ----
NoHomeDevice == [dict |-> TRUE, sn |-> Absent, device_sn |-> Absent, name |-> Absent]
HomeDevices ==
    {[NoHomeDevice EXCEPT !.sn = Str("APISN001"), !.name = Str("Romo")],
     [NoHomeDevice EXCEPT !.device_sn = Str("APISN002")],
     [NoHomeDevice EXCEPT !.name = Str("Lamp")],
     [NoHomeDevice EXCEPT !.dict = FALSE]}

HomesResponses ==
    [exc : {TRUE}, envelope : {"result"}, code : {0}, shape : {"list"},
     homes : {<<>>}] \cup
    [exc : {FALSE}, envelope : Envelopes, code : {0, 1}, shape : {"notlist"},
     homes : {<<>>}] \cup
    [exc : {FALSE}, envelope : Envelopes, code : {0, 1}, shape : {"list"},
     homes : {<<>>} \cup {<<ds>> : ds \in SeqsUpTo(HomeDevices, MaxDevices)}
                    \cup {<< <<>>, ds>> : ds \in SeqsUpTo(HomeDevices, MaxDevices)}]

\* `for device in devices`: stops at the first device with a serial
RECURSIVE home_device_loop(_, _, _)
home_device_loop(cred, devices, i) ==
    IF i > Len(devices) THEN [cred |-> cred, failed |-> FALSE]
    ELSE IF ~devices[i].dict THEN [cred |-> cred, failed |-> TRUE]
    ELSE LET sn == PyOr(JsonGet(devices[i].sn), JsonGet(devices[i].device_sn)) IN
         IF Truthy(sn)
         THEN [cred |-> [cred EXCEPT
                            !["device_sn"] = sn,
                            !["device_name"] = IF devices[i].name = Absent
                                               THEN Str("") ELSE devices[i].name],
               failed |-> FALSE]
         ELSE home_device_loop(cred, devices, i + 1)

\* `for home in homes`: stops once device_sn is set
RECURSIVE home_loop(_, _, _)
home_loop(cred, homes, i) ==
    IF i > Len(homes) THEN [cred |-> cred, failed |-> FALSE]
    ELSE LET h == home_device_loop(cred, homes[i], 1) IN
         IF h.failed \/ Truthy(h.cred["device_sn"]) THEN h
         ELSE home_loop(h.cred, homes, i + 1)

home_homes(cred, r) ==
    IF r.exc THEN [cred |-> cred, failed |-> TRUE]
    ELSE IF ~code_is_zero("home", r) THEN [cred |-> cred, failed |-> TRUE]
    ELSE IF r.shape # "list" THEN [cred |-> cred, failed |-> TRUE]
    ELSE home_loop(cred, r.homes, 1)

(***************************************************************************)
(* test_api as steps of main(): one step per HTTP request                 *)
(***************************************************************************)
\* the last request's failure leaves test_api as an exception
ApiReturn_reraising(cred, failed) ==
    IF failed
    THEN Crash("RequestException") /\ credentials' = cred
         /\ apiFailed' = TRUE /\ applied' = applied
    ELSE /\ credentials' = cred
         /\ apiFailed' = apiFailed
         /\ applied' = applied + 1
         /\ Goto("save")

\* test_api returns `credentials` to main()
ApiReturn(cred, failed) ==
    /\ credentials' = cred
    /\ apiFailed' = (apiFailed \/ failed)
    /\ applied' = applied + 1
    /\ Goto("save")

ApiNext(cred, failed, next) ==
    /\ credentials' = cred
    /\ apiFailed' = (apiFailed \/ failed)
    /\ applied' = applied
    /\ Goto(next)

\* `import requests`, the user_token guard and the first request
test_api ==
    /\ pc = "test_api"
    /\ \E importable \in BOOLEAN :
          IF ~importable
          THEN /\ Crash("ImportError")
               /\ UNCHANGED <<credentials, apiFailed, applied, apiCodes>>
          ELSE IF token_missing(credentials)
          THEN ApiReturn(credentials, FALSE) /\ UNCHANGED apiCodes
          ELSE IF variant = "home"
          THEN \E r \in MqttResponses :
                  LET a == home_mqtt(credentials, r) IN
                  /\ apiCodes' = Answered(apiCodes, Answer(variant, r))
                  /\ IF ~Truthy(a.cred["device_sn"])
                     THEN ApiNext(a.cred, a.failed, "api2")
                     ELSE ApiReturn(a.cred, a.failed)
          ELSE \E r \in MemberResponses :
                  LET a == fly_member_info(credentials, r) IN
                  /\ apiCodes' = Answered(apiCodes, Answer(variant, r))
                  /\ ApiNext(a.cred, a.failed, "api2")
    /\ UNCHANGED <<now, heapFile, pid, scan, acq, parsed, preApi, result, capture, output, files>>
    /\ UNCHANGED frame

\* home: the /homes request; fly: the /devices request
test_api_devices ==
    /\ pc = "api2"
    /\ IF variant = "home"
       THEN \E r \in HomesResponses :
               LET a == home_homes(credentials, r) IN
               /\ apiCodes' = Answered(apiCodes, Answer(variant, r))
               /\ ApiReturn(a.cred, a.failed)
       ELSE \E r \in DevicesResponses :
               LET a == fly_devices(credentials, r) IN
               /\ apiCodes' = Answered(apiCodes, Answer(variant, r))
               /\ ApiNext(a.cred, a.failed, "api3")
    /\ UNCHANGED <<now, heapFile, pid, scan, acq, parsed, preApi, result, capture, output, files>>
    /\ UNCHANGED frame

\* fly: the flight records request
test_api_flights ==
    /\ pc = "api3"
    /\ \E r \in FlightsResponses :
          LET a == fly_flights(credentials, r) IN
          /\ apiCodes' = Answered(apiCodes, Answer(variant, r))
          /\ ApiReturn(a.cred, a.failed)
    /\ UNCHANGED <<now, heapFile, pid, scan, acq, parsed, preApi, result, capture, output, files>>
    /\ UNCHANGED frame

(***************************************************************************)
(* save_credentials, cleanup, the end of main()                           *)
(***************************************************************************)
\* credentials.get(k): the default is left out
Get_without_default(cred, k, default) == IF cred[k] = Absent THEN None ELSE cred[k]

\* credentials.get(k, default)
Get(cred, k, default) == IF cred[k] = Absent THEN default ELSE cred[k]

\* "sep".join(list)
Join(v) == [kind |-> "str", items |-> <<"join">> \o v.items]

EnvKeys(v) ==
    IF v = "home" THEN {"user_token", "user_id", "device_sn"}
    ELSE {"user_token", "user_id", "user_email", "drone_sn", "drone_model"}

\* the DJI_...= lines of the env file
env_content(v, cred) ==
    [k \in Keys |-> IF k \in EnvKeys(v) THEN PyStr(Get(cred, k, Str(""))) ELSE Absent]

NotFoundKeys(v) ==
    IF v = "home"
    THEN {"user_token", "user_id", "user_email", "user_name", "device_uuid",
          "device_sn", "pair_uuid", "iot_url"}
    ELSE {"user_token", "user_id", "user_email", "user_name", "account_token",
          "openapi_token", "drone_sn", "drone_model"}

\* the value lines of the report
report_content(v, cred) ==
    [k \in Keys |->
        CASE k \in NotFoundKeys(v) -> PyStr(Get(cred, k, Str("Not found")))
          [] v = "home" /\ k = "mqtt_domain" ->
                PyStr(Get(cred, k, Str("crobot-mqtt-us.djigate.com")))
          [] v = "home" /\ k = "mqtt_port" -> PyStr(Get(cred, k, Num("8883")))
          [] v = "home" /\ k = "mqtt_user_uuid" ->
                PyStr(Get(cred, k, Str("Obtained via API")))
          [] v = "fly" /\ k = "device_uuid" ->
                IF Get(cred, k, List(<<>>)).kind = "list"
                THEN IF Truthy(Get(cred, k, List(<<>>)))
                     THEN Join(cred[k]) ELSE Str("Not found")
                ELSE PyOr(cred[k], Str("Not found"))
          [] v = "fly" /\ k = "api_urls" ->
                IF Truthy(Get(cred, k, List(<<>>)))
                THEN Join(cred[k]) ELSE Str("None discovered")
          [] v = "fly" /\ k = "account_verified" ->
                IF Truthy(cred[k]) THEN Str("Verified") ELSE Str("Not verified")
          [] v = "fly" /\ k = "flight_records_accessible" ->
                IF Truthy(cred[k]) THEN Str("Accessible") ELSE Str("Not accessible")
          [] v = "fly" /\ k = "recent_flights_count" ->
                PyStr(Get(cred, k, Str("N/A")))
          [] OTHER -> Absent]

save_credentials ==
    /\ pc = "save"
    /\ files' = [written |-> TRUE,
                 env |-> env_content(variant, credentials),
                 report |-> report_content(variant, credentials)]
    /\ Goto("cleanup")
    /\ UNCHANGED <<now, heapFile, pid, scan, acq, parsed, credentials, preApi, result,
                   apiFailed, applied, capture, output>>
    /\ UNCHANGED frame
    /\ UNCHANGED apiCodes

\* cleanup(): the "stop the emulator?" prompt; then main() returns
cleanup ==
    /\ pc = "cleanup"
    /\ \E response \in {"y", "n"} :
          /\ pc' = "exited"
          /\ exitCode' = "0"
          /\ endedIn' = pc
          /\ UNCHANGED <<variant, raised, diag, interrupted>>
    /\ UNCHANGED <<now, data>>
    /\ UNCHANGED frame

\* how the interpreter ends on a KeyboardInterrupt: caught by main()'s
\* handler inside the try block (sys.exit(1)); uncaught at the first prompt,
\* where the interpreter dies of SIGINT (3.8 and later) or exits with 1
interrupt_exit(at, py38) ==
    IF at = "prompt" THEN (IF py38 THEN "SIGINT" ELSE "1") ELSE "1"

\* the operator presses Ctrl-C while main() is at any of its steps
KeyboardInterrupt ==
    /\ pc # "exited"
    /\ \E py38 \in BOOLEAN : exitCode' = interrupt_exit(pc, py38)
    /\ pc' = "exited"
    /\ interrupted' = TRUE
    /\ endedIn' = pc
    /\ UNCHANGED <<variant, raised, diag, now, data>>
    /\ UNCHANGED frame

Next ==
    \/ press_enter_to_start
    \/ setup_android_sdk
    \/ create_avd
    \/ start_emulator
    \/ start_emulator_poll
    \/ start_emulator_timeout
    \/ setup_root
    \/ install_apk
    \/ launch_app
    \/ wait_for_login
    \/ extract_credentials_dump
    \/ batch_completes
    \/ batch_times_out
    \/ batch_channel_error
    \/ test_api
    \/ test_api_devices
    \/ test_api_flights
    \/ save_credentials
    \/ cleanup
    \/ KeyboardInterrupt

Spec == Init /\ [][Next]_vars

(***************************************************************************)
(* test_api applied twice in succession to a record that                  *)
(* extract_credentials can return                                          *)
(***************************************************************************)
\* the records extract_credentials returns for the captures of the model
ExtractedRecords(v) ==
    {c \in {ParseOutput(v, BatchRun(v, cap).out) : cap \in Captures(v)} :
        ~token_missing(c)}

InitTwice ==
    /\ variant \in {"home", "fly"}
    /\ pc = "test_api"
    /\ now = 0
    /\ heapFile = "absent"
    /\ pid = ""
    /\ credentials \in ExtractedRecords(variant)
    /\ parsed = credentials
    /\ preApi = credentials
    /\ result = "record"
    /\ raised = "none"
    /\ diag = "none"
    /\ apiFailed = FALSE
    /\ interrupted = FALSE
    /\ exitCode = "running"
    /\ applied = 0
    /\ capture = NoMatch(variant)
    /\ output = "text"
    /\ endedIn = ""
    /\ apiCodes = "none"
    /\ frame = NoFrame
    /\ scan = NoScan
    /\ acq = NoAcq
    /\ files = NoFiles

\* credentials = test_api(credentials), a second time
test_api_again ==
    /\ pc = "save"
    /\ applied = 1
    /\ preApi' = credentials
    /\ Goto("test_api")
    /\ apiCodes' = "none"
    /\ UNCHANGED <<now, heapFile, pid, scan, acq, parsed, credentials, result, apiFailed,
                   applied, capture, output, frame, files>>

NextTwice ==
    \/ test_api
    \/ test_api_devices
    \/ test_api_flights
    \/ test_api_again

SpecTwice == InitTwice /\ [][NextTwice]_vars


(***************************************************************************)
(* The parsing loop of extract_credentials on its own, one line per step, *)
(* for outputs made of header lines, value lines and blank lines          *)
(***************************************************************************)
MaxLines == 4

\* the lines an output is made of: headers of a scalar field, of a field
\* that is a list in fly, and of a second list field; values, with and
\* without surrounding blanks; whitespace-only and empty lines
OutputLines ==
    {Hdr("USER_TOKEN"), Hdr("API_URLS"), Hdr("DEVICE_UUID"),
     Text("a"), Padded("a"), Text("b"), Blank, EmptyLine}

\* header keys that occur more than once among the lines
RepeatedHeaders(lines) ==
    {HeaderKey(lines[i]) : i \in {j \in 1..Len(lines) :
        /\ IsHeader(lines[j])
        /\ \E h \in 1..Len(lines) : h # j /\ lines[h] = lines[j]}}

\* outputs the batch can yield: the home batch echoes each header once and
\* none of its patterns matches a header-shaped text; a fly value (nickname,
\* model_name, product_type) can itself have the shape of a header
Outputs(v) ==
    {q \in SeqsUpTo(OutputLines, MaxLines) : v = "home" => RepeatedHeaders(q) = {}}

InitParse ==
    /\ variant \in {"home", "fly"}
    /\ pc = "parse"
    /\ now = 0
    /\ heapFile = "absent"
    /\ pid = ""
    /\ parsed = EmptyRecord
    /\ credentials = EmptyRecord
    /\ preApi = EmptyRecord
    /\ result = "unset"
    /\ raised = "none"
    /\ diag = "none"
    /\ apiFailed = FALSE
    /\ interrupted = FALSE
    /\ exitCode = "running"
    /\ applied = 0
    /\ capture = NoMatch(variant)
    /\ output = "text"
    /\ endedIn = ""
    /\ apiCodes = "none"
    /\ frame = NoFrame
    /\ scan \in [lines : Outputs(variant), done : {0}, cur : {""}]
    /\ acq = NoAcq
    /\ files = NoFiles

\* one iteration of `for line in output.split('\n')`
parse_line ==
    /\ pc = "parse"
    /\ scan.done < Len(scan.lines)
    /\ LET st == ParseLine(variant, [cred |-> parsed, cur |-> scan.cur],
                           scan.lines[scan.done + 1])
       IN /\ parsed' = st.cred
          /\ scan' = [scan EXCEPT !.done = scan.done + 1, !.cur = st.cur]
    /\ UNCHANGED <<variant, pc, now, heapFile, pid, credentials, preApi, result,
                   raised, diag, apiFailed, interrupted, exitCode, applied,
                   capture, output, endedIn, apiCodes, frame, acq, files>>

\* after the loop: the validity check and the return
parse_return ==
    /\ pc = "parse"
    /\ scan.done = Len(scan.lines)
    /\ pc' = "parsed"
    /\ result' = IF token_missing(parsed) THEN "None" ELSE "record"
    /\ credentials' = IF token_missing(parsed) THEN credentials ELSE parsed
    /\ UNCHANGED <<variant, now, heapFile, pid, parsed, preApi, raised, diag,
                   apiFailed, interrupted, exitCode, applied, capture, output,
                   endedIn, apiCodes, frame, scan, acq, files>>

NextParse ==
    \/ parse_line
    \/ parse_return

SpecParse == InitParse /\ [][NextParse]_vars

(***************************************************************************)
(* Properties                                                              *)
(***************************************************************************)

\* start_emulator has returned from its readiness loop
ReadinessReturned ==
    \/ pc = "setup_root"
    \/ pc = "exited" /\ endedIn = "polling" /\ ~interrupted

\* C1: whenever the readiness stage returns -- ready, or failed because the
\* emulator died or the wait timed out -- it does so no later than the
\* configured deadline (max_wait, allowing for the grace delay that follows
\* the ready report); it never blocks past the deadline.
C1_ReturnsByDeadline ==
    ReadinessReturned =>
        /\ pc = "exited" => diag \in {"died", "timeout"}
        /\ now <= max_wait + grace_delay

\* extract_credentials has run its extraction batch and has finished, by
\* returning or by raising
BatchFinished ==
    /\ output # "unset"
    /\ result # "unset" \/ raised = "UnboundLocalError"

\* C2: once the copy has produced heap.bin and the extraction batch has been
\* run, then whatever the outcome (token found, token not found, channel
\* error, timeout) heap.bin is absent when extract_credentials finishes.
C2_ArtifactRemoved ==
    BatchFinished => heapFile = "absent"

\* C3: a field that extraction populated with a non-empty value holds the
\* same value after any part of test_api has run.
C3_FirstWriterWins ==
    result = "record" =>
        \A k \in Keys : Truthy(preApi[k]) => credentials[k] = preApi[k]

\* C4: applying test_api a second time, with any responses, never changes a
\* field that was populated after the first application.
C4_SecondApplicationKeepsFields ==
    applied = 2 =>
        \A k \in Keys : Truthy(preApi[k]) => credentials[k] = preApi[k]

\* the scalar fields that have several candidate matchers, with the
\* matchers in priority order
CascadeFields(v) ==
    IF v = "home" THEN {"device_sn"}
    ELSE {"user_id", "user_name", "drone_sn", "drone_model"}

CascadeSlots(f) ==
    CASE f = "device_sn" -> <<"device_sn.1", "device_sn.2">>
      [] f = "user_id" -> <<"user_id.1", "user_id.2", "user_id.3">>
      [] f = "user_name" -> <<"user_name.1", "user_name.2">>
      [] f = "drone_sn" -> <<"drone_sn.1", "drone_sn.2", "drone_sn.3">>
      [] f = "drone_model" -> <<"drone_model.1", "drone_model.2", "drone_model.3">>

\* the text a matcher produced, as a value; surrounding blanks do not count
MatcherResult(slot) ==
    LET out == PipeOut(slot, capture[slot])
        line == IF out = <<>> THEN EmptyLine ELSE strip(out[1])
    IN IF line.kind = "hdr" THEN [kind |-> "str", items |-> <<"=== ", line.text, " ===">>]
       ELSE Str(line.text)

\* the matchers of field f whose result is non-empty, in priority order
Producing(f) ==
    SelectSeq(CascadeSlots(f), LAMBDA slot : Truthy(MatcherResult(slot)))

\* C5: for every scalar field with several matchers, the value the parse
\* stores is the result of the earliest matcher, in priority order, whose
\* result is non-empty.
C5_EarliestMatcherWins ==
    output = "text" =>
        \A f \in CascadeFields(variant) :
            Producing(f) # <<>> => parsed[f] = MatcherResult(Producing(f)[1])

\* C6: when extract_credentials fails, for whatever reason, it returns None
\* to main and no exception leaves it.
C6_ExtractNeverRaises ==
    (pc = "exited" /\ endedIn \in {"extract", "batch"} /\ ~interrupted) =>
        raised = "none" /\ result = "None"
\* C7: when the batch produced output, extract_credentials returns a record
\* if and only if the parsed user_token is non-empty, whatever the other
\* fields hold.
C7_ValidIffToken ==
    output = "text" => (result = "record" <=> Truthy(parsed["user_token"]))

\* the batch found other fields but no token, and None was returned
C7_OtherFieldsOnly ==
    /\ output = "text"
    /\ result = "None"
    /\ \E k \in Keys \ {"user_token"} : Truthy(parsed[k])

NoDup(q) == \A i, j \in 1..Len(q) : i # j => q[i] # q[j]

\* the fields of the extraction catalogue
Fields(v) == IF v = "home" THEN HomeFields ELSE FlyFields

ShapeOk(v, rec) ==
    \A k \in Fields(v) :
        IF v = "fly" /\ k \in list_keys
        THEN rec[k].kind \in {"absent", "list"} /\ NoDup(rec[k].items)
        ELSE rec[k].kind \in {"absent", "str"}

\* C8: in the record as parsed and as enriched, every list-typed field has
\* no two equal entries and every scalar field holds one string.
C8_RecordShape == ShapeOk(variant, parsed) /\ ShapeOk(variant, credentials)

\* every stage succeeded and the token was found
RunSucceeded ==
    /\ endedIn = "cleanup"
    /\ result = "record"
    /\ ~interrupted
    /\ raised = "none"
    /\ diag = "none"

\* C9: main exits with 0 exactly when every stage succeeded and a token was
\* found, and with 1 on every fatal stage failure and on every operator
\* interrupt, whichever prompt or wait it arrives at.
C9_ExitCode ==
    pc = "exited" =>
        /\ exitCode = "0" <=> RunSucceeded
        /\ ~RunSucceeded => exitCode = "1"

\* C10: once a request of test_api has failed, nothing is raised, no stage
\* fails, and a run that is not interrupted persists the record and exits 0.
C10_EnrichmentNeverAborts ==
    apiFailed =>
        /\ raised = "none"
        /\ diag = "none"
        /\ (pc = "exited" /\ ~interrupted) =>
               exitCode = "0" /\ applied = 1 /\ files.written

\* a run in which a request failed has saved the record and exited 0
C10_FailedEnrichmentExitZero ==
    /\ apiFailed
    /\ pc = "exited"
    /\ exitCode = "0"
    /\ files.written

\* the flags test_api keeps about its own requests
StatusFlags == {"api_working", "account_verified", "flight_records_accessible"}

\* the data fields only the home enrichment can provide
HomeEnrichmentFields == {"mqtt_domain", "mqtt_port", "mqtt_user_uuid", "device_sn"}

\* test_api has returned and each request it issued was answered with a
\* non-zero code
EnrichmentRejected == apiCodes = "rejected" /\ applied = 1

ReadyFromPolling ==
    /\ pc = "setup_root"
    /\ frame.stage = "start_emulator"
    /\ frame.issued # <<>>

\* C12: when the polling loop has seen the device offline for OfflineCycles
\* consecutive cycles and then reports ready, the cycle that reported it saw
\* the device listed, not offline, with the boot flag read as "1", and
\* control is back at main() no earlier than grace_delay after that cycle
\* began; no cycle that saw the device offline reports ready.
C12_ReadyAfterOfflineRun ==
    ReadyFromPolling =>
        /\ ~frame.offlineNow
        /\ frame.offline = OfflineCycles =>
              /\ frame.listed
              /\ frame.bootRead /\ frame.boot = "1"
              /\ ~frame.exited
              /\ now >= frame.t0 + grace_delay

\* three offline cycles, then online and booted: ready, grace_delay later
C12_OfflineThenReady ==
    /\ ReadyFromPolling
    /\ frame.offline = OfflineCycles
    /\ frame.boot = "1"
    /\ now = frame.t0 + grace_delay

\* a stage before the acquisition has printed an error indicator
ErrorReported == frame.err # "none" \/ diag # "none"

\* C13: once a stage has reported an error (AVD creation, readiness,
\* install, launch, process resolution, extraction), the run has ended with
\* a non-zero exit code and no later stage runs.
C13_ErrorEndsRun ==
    ErrorReported => pc = "exited" /\ exitCode = "1"

\* the batch ran on a capture that holds a token and no other match
TokenOnlyCapture ==
    /\ output = "text"
    /\ capture["user_token"] # <<>>
    /\ \A sl \in DOMAIN capture : sl # "user_token" => capture[sl] = <<>>

\* the record fields, status flags and token aside, that the report renders
ReportFields(v) ==
    {k \in Keys \ StatusFlags : report_content(v, EmptyRecord)[k] # Absent}
        \ {"user_token"}

\* what the report prints for a field the record lacks
NotFoundText(v, k) ==
    CASE k \in NotFoundKeys(v) -> Str("Not found")
      [] k = "device_uuid" -> Str("Not found")
      [] k = "api_urls" -> Str("None discovered")
      [] k = "recent_flights_count" -> Str("N/A")
      [] k = "mqtt_domain" -> Str("crobot-mqtt-us.djigate.com")
      [] k = "mqtt_port" -> Str("8883")
      [] k = "mqtt_user_uuid" -> Str("Obtained via API")
      [] OTHER -> Absent

ReadyReported == pc = "setup_root" /\ frame.stage = "start_emulator"

\* C15: start_emulator reports success only when, at that moment, the device
\* is listed, is not offline, and its boot flag has been read as "1".
C15_ReadyImpliesBootedOnline ==
    ReadyReported =>
        /\ frame.listed
        /\ ~frame.offlineNow
        /\ frame.bootRead
        /\ frame.boot = "1"

\* start_emulator returned True and main() has not gone past setup_root
ReadyReturned ==
    \/ pc = "setup_root"
    \/ pc = "exited" /\ endedIn = "setup_root" /\ interrupted

C17_DiedTakesPrecedence ==
    /\ (frame.stage = "start_emulator" /\ frame.exited) =>
           pc = "exited" /\ diag = "died" /\ exitCode = "1"
    /\ diag = "died" => pc = "exited" /\ frame.exited

\* the process was found dead while the device list showed an online,
\* booted device: 'died' was returned
C17_DiedWhileShownReady ==
    /\ diag = "died"
    /\ frame.exited
    /\ frame.shown
    /\ pc = "exited"

\* the selection rule as the specification words it
ExpectedApk(dir) ==
    IF "exact" \in dir THEN "exact"
    ELSE IF "fuzzy" \in dir THEN "fuzzy"
    ELSE IF Cardinality(dir) = 1 THEN CHOOSE f \in dir : TRUE
    ELSE "none"

\* C18: install_apk chooses the file with the exact expected name if there
\* is one, else a file whose name carries both markers, else the only file
\* present when exactly one is present; with no file selected the run ends
\* with exit code 1.
C18_PackageSelection ==
    frame.stage = "install_apk" =>
        /\ frame.picked = ExpectedApk(frame.dir)
        /\ frame.picked = "none" => pc = "exited" /\ exitCode = "1"

\* C19: whenever the package query lists the application as installed,
\* install_apk reports success and issues no install command, whatever
\* SCRIPT_DIR holds.
C19_InstalledShortCircuit ==
    (frame.stage = "install_apk" /\ frame.installed) =>
        /\ ~InSeq("adb_install", frame.issued)
        /\ frame.err = "none"
        /\ diag = "none"

\* C20: launch_app first resolves the application's entry point from the
\* package registry and starts it; only when the resolution fails does it
\* use the generic launcher mechanism; one launch command is issued.
C20_LaunchResolution ==
    frame.stage = "launch_app" =>
        frame.issued = <<"resolve_activity",
                         IF frame.resolved THEN "am_start_resolved" ELSE "monkey">>

\* the operator has pressed ENTER at the login prompt of wait_for_login
Acknowledged == frame.stage = "wait_for_login"

\* nothing of extract_credentials, test_api or save_credentials has happened
AfterGateUntouched ==
    /\ pid = "" /\ result = "unset" /\ output = "unset"
    /\ heapFile \in {"absent", "stale"}
    /\ parsed = EmptyRecord /\ credentials = EmptyRecord
    /\ apiCodes = "none" /\ applied = 0
    /\ ~files.written

\* C21: nothing of the stages after the operator gate happens before the
\* acknowledgment; the gate never ends the run by itself (only an interrupt
\* does); and the polling wait of start_emulator, when it fails, ends with
\* the 'died' or 'timeout' error no later than its deadline max_wait.
C21_OperatorGate ==
    /\ ~Acknowledged => AfterGateUntouched
    /\ (pc = "exited" /\ endedIn = "wait_for_login") => interrupted
    /\ (pc = "exited" /\ endedIn = "polling" /\ ~interrupted) =>
           diag \in {"died", "timeout"} /\ now <= max_wait

\* how many times command c occurs in q
Times(c, q) == Cardinality({i \in 1..Len(q) : q[i] = c})

\* extract_credentials has run its process lookup
LookedUp == InSeq("pidof", acq.issued)

\* C22: when pidof prints no process id, extract_credentials fails with the
\* 'not running' diagnostic and issues no memory copy; when it prints one or
\* more ids, one copy is issued, against the first id printed.
C22_ProcessResolution ==
    LookedUp =>
        IF acq.pids = <<>>
        THEN /\ ~InSeq("dd", acq.issued)
             /\ pc = "exited" /\ diag = "not_running"
             /\ result = "None" /\ exitCode = "1"
        ELSE /\ Times("dd", acq.issued) = 1
             /\ acq.target = acq.pids[1]
             /\ pid \in {"", acq.pids[1]}

\* pidof printed two ids and the copy read the memory of the first
C22_FirstOfSeveral ==
    /\ LookedUp
    /\ Len(acq.pids) = 2
    /\ acq.target = "4711"
    /\ pc = "batch"

\* extract_credentials has run its post-check (the ls on heap.bin)
PostChecked == InSeq("ls", acq.issued)

\* C23: the extraction batch is issued only after heap.bin has been found to
\* exist and to be non-empty; when heap.bin exists but is empty, the stage
\* lists the head of the memory map and fails without issuing the batch.
C23_PostCheck ==
    /\ pc = "batch" => heapFile \notin {"absent", "empty"}
    /\ (PostChecked /\ heapFile = "empty") =>
           /\ InSeq("maps", acq.issued)
           /\ pc = "exited" /\ diag = "dump_failed"

\* the commands of the last stage before the gate and of the acquisition
Issued == frame.issued \o acq.issued

\* device launch, install, memory copy and extraction batch are issued at
\* most once
SingleAttempts ==
    /\ Times("popen_emulator", Issued) <= 1
    /\ Times("adb_install", Issued) <= 1
    /\ Times("dd", Issued) <= 1
    /\ output # "unset" => pc # "batch"

\* C24 (as amended): device launch, install, memory copy and extraction
\* batch are each attempted at most once in a run; create_avd alone repeats
\* its operation: fly issues its create command up to three times, a further
\* time only while the AVD still does not exist, and home issues it once.
C24_RetryOnlyInCreateAvd ==
    /\ SingleAttempts
    /\ frame.stage = "create_avd" =>
          LET n == Times("avdmanager_create", frame.issued) IN
          /\ n <= create_attempts(variant)
          /\ n > 1 => frame.avdAt >= n
          /\ frame.avdAt = 0 <=> n = 0

\* fly: the AVD did not exist after two create commands, a third was issued
C24_ThirdCreateAttempt ==
    /\ variant = "fly"
    /\ frame.stage = "create_avd"
    /\ Times("avdmanager_create", frame.issued) = 3
    /\ pc = "start_emulator"

\* C24 (as stated): no stage issues its operation a second time in a run:
\* AVD creation, device launch, install, memory copy and extraction batch
\* are each attempted at most once.
C24_NoStageRepeats ==
    /\ SingleAttempts
    /\ Times("avdmanager_create", Issued) <= 1

\* the batch ran on the device and its output came back
BatchCompleted == output = "text" /\ pc # "batch" /\ result # "unset"

\* the sections of the batch for which nothing was matched
EmptySections(v, cap) ==
    {i \in 1..Len(Sections(v)) :
        \A j \in 1..Len(Sections(v)[i].slots) : cap[Sections(v)[i].slots[j]] = <<>>}

\* C25: when the batch runs to completion, every command of it is executed,
\* whatever sections match nothing: the header of every section is printed
\* and the final rm -f heap.bin is run.
C25_NonHaltingSections ==
    BatchCompleted =>
        LET run == BatchRun(variant, capture) IN
        /\ StepsRun(extract_cmd(variant, capture), Separator(variant), 1)
              = Len(extract_cmd(variant, capture))
        /\ \A i \in 1..Len(Sections(variant)) :
              InSeq(Hdr(Sections(variant)[i].label), run.out)
        /\ run.removed
        /\ heapFile = "absent"

\* home: sections before the PAIR_UUID section matched nothing, the
\* PAIR_UUID section still produced its value and heap.bin was removed
C25_LaterSectionAfterEmptyOnes ==
    /\ BatchCompleted
    /\ variant = "home"
    /\ {2, 3, 4, 5} \subseteq EmptySections(variant, capture)
    /\ parsed["pair_uuid"] = Str("ROMO-1")
    /\ heapFile = "absent"

\* the key of the header line nearest before line i ("" when there is none)
SectionKey(lines, i) ==
    LET hs == {j \in 1..(i - 1) : IsHeader(lines[j])} IN
    IF hs = {} THEN ""
    ELSE HeaderKey(lines[CHOOSE j \in hs : \A h \in hs : h <= j])

\* the non-empty lines of the sections of field k
ValueLines(lines, k) ==
    {i \in 1..Len(lines) :
        /\ ~IsHeader(lines[i])
        /\ strip(lines[i]).kind # "empty"
        /\ SectionKey(lines, i) = k}

\* the first non-empty line of the field's section
FirstValue(lines, k) ==
    LET vs == ValueLines(lines, k) IN
    IF vs = {} THEN Absent
    ELSE Str(lines[CHOOSE i \in vs : \A j \in vs : i <= j].text)

\* the lines of the field's section in order, exact repeats left out
DistinctValues(lines, k) ==
    LET vs == ValueLines(lines, k)
        firsts == {i \in vs : \A j \in vs : j < i => lines[j].text # lines[i].text}
        idx == SelectSeq([i \in 1..Len(lines) |-> i], LAMBDA i : i \in firsts)
    IN IF vs = {} THEN Absent
       ELSE List([n \in 1..Len(idx) |-> lines[idx[n]].text])

\* the parsing loop has consumed every line
ParseDone == pc = "parsed"

\* C26: for every output, the parsed record holds for each scalar field the
\* first non-empty line after the field's header and before the next header,
\* for each list-typed field the lines of its section in order of first
\* appearance without exact repeats; lines before the first header are
\* ignored and a field whose section is empty is absent.
C26_ResultParsing ==
    ParseDone =>
        \A k \in Keys :
            parsed[k] = IF variant = "fly" /\ k \in list_keys
                        THEN DistinctValues(scan.lines, k)
                        ELSE FirstValue(scan.lines, k)

\* fly: a list section with a repeated line was parsed to its two distinct
\* lines in order
C26_ListSectionParsed ==
    /\ ParseDone
    /\ variant = "fly"
    /\ scan.lines = <<Hdr("API_URLS"), Text("b"), Padded("a"), Text("b")>>
    /\ parsed["api_urls"] = List(<<"b", "a">>)

\* C27: every request of test_api whose response carries result code 0, in
\* the envelope {result:{code,message}, data} or in the envelope
\* {code, message, data}, is treated as successful.
C27_EitherEnvelopeAccepted == apiCodes # "unread"

\* C28: test_api never changes or removes user_token: whatever the API
\* answers, the record keeps the token extract_credentials parsed, and the
\* token written to the env file and to the report is that token.
C28_TokenIntegrity ==
    result = "record" =>
        /\ Truthy(parsed["user_token"])
        /\ credentials["user_token"] = parsed["user_token"]
        /\ files.written =>
              /\ files.env["user_token"] = parsed["user_token"]
              /\ files.report["user_token"] = parsed["user_token"]

\* the enrichment changed the record, and both files carry the parsed token
C28_TokenSavedAfterEnrichment ==
    /\ files.written
    /\ applied = 1
    /\ \E k \in Keys \ StatusFlags : credentials[k] # parsed[k]
    /\ files.env["user_token"] = Str("US_tokA")
    /\ files.report["user_token"] = Str("US_tokA")

\* main() is in, or has been through, test_api or save_credentials
Enriching ==
    \/ pc \in {"test_api", "api2", "api3", "save", "cleanup"}
    \/ applied > 0
    \/ files.written

\* test_api and save_credentials run only on a record with a token
OnlyValidRecords ==
    Enriching => result = "record" /\ Truthy(credentials["user_token"])

\* C29 (as amended): test_api and save_credentials run only when
\* extract_credentials returned a record with a non-empty user_token; a run
\* that fails before save_credentials has run writes neither file; the only
\* failing run that has written them is one interrupted at the prompt of
\* cleanup.
C29_PersistOnlyValidRecord ==
    /\ OnlyValidRecords
    /\ (pc = "exited" /\ exitCode # "0" /\ endedIn # "cleanup") => ~files.written
    /\ (pc = "exited" /\ exitCode # "0" /\ endedIn = "cleanup") =>
           interrupted /\ files.written

\* a record was returned, test_api raised, and no file was written
C29_FailedAfterExtraction ==
    /\ pc = "exited"
    /\ exitCode = "1"
    /\ result = "record"
    /\ endedIn = "test_api"
    /\ ~files.written

\* C29 (as stated): test_api and save_credentials run only on a record with
\* a non-empty user_token, and a run that ends in a failure has written
\* neither output file.
C29_NoFileOnFailure ==
    /\ OnlyValidRecords
    /\ (pc = "exited" /\ exitCode # "0") => ~files.written

\* the post-check has passed and the batch is about to read heap.bin
PostCheckPassed == pc = "batch" /\ PostChecked /\ ~InSeq("maps", acq.issued)

\* C30: whenever the post-check passes, the heap.bin the batch then reads
\* was written by this run's own dd, never one left by an earlier run.
C30_FreshCapture ==
    PostCheckPassed => heapFile \in {"fresh", "empty"}
====
